---- MODULE Spec2Model ----
(***************************************************************************)
(* Cockpit: goals, dated entries, the goal detail page (add / delete       *)
(* entries, History list, numeric chart) and the dashboard (latest entry   *)
(* per goal, numeric chart with target line, check-in calendar).           *)
(*                                                                         *)
(* Abstractions                                                            *)
(*  - `now` is the store's clock counted in ticks (the resolution of its   *)
(*    timestamptz); TicksPerMs ticks make one millisecond, the resolution  *)
(*    of Date.getTime().  `today` is the calendar day, a day number, as    *)
(*    is entry_date ('YYYY-MM-DD').  Both only move forward; a day is      *)
(*    MsPerDay milliseconds long.  Time passes between two handlers, so a  *)
(*    handler that reads a clock takes the reading as an input that is     *)
(*    not before the last one.                                             *)
(*  - A uuid is the creation tick of its row (unique, opaque).             *)
(*  - A nullable column is an option: {} is null, {v} is the value v.      *)
(*  - Chart coordinates are exact rationals <<numerator, denominator>>;    *)
(*    the rounding of IEEE doubles is not modelled.  Their range is: a     *)
(*    finite number has a magnitude of at most MaxDouble, a difference     *)
(*    beyond it is Infinity, and Infinity / Infinity is NaN.               *)
(*  - Display-only columns (title text, description, goal_type,            *)
(*    target_date, reflection, updated_at) are left out of the rows.       *)
(*  - The store stamps created_at itself (default now()); nothing keeps    *)
(*    two rows a millisecond apart, so two ticks of one millisecond are    *)
(*    two possible stamps.                                                 *)
(*  - A page is left only when none of its requests is in flight.          *)
(*  - Day 0 is Epoch (2024-06-30).  The dashboard is rendered on a server  *)
(*    whose local date is the UTC date or a neighbour of it (TzShifts);    *)
(*    the calendar reads the clock twice, once for the local date and      *)
(*    once for the UTC date.                                               *)
(*  - The record getDashboardData returns also keeps the tables it         *)
(*    queried and its console lines; `dash` adds the clock readings of     *)
(*    the render.                                                          *)
(*                                                                         *)
(* Specifications                                                          *)
(*  - Spec: the application from an empty store, every handler.            *)
(*  - AddsSpec: the goal forms and both add forms, from an empty store.   *)
(*  - EntryAddsSpec: two goals are set up; both add forms and the pages.   *)
(*  - EntriesSpec: two goals are set up; the entry handlers and the pages. *)
(*  - ChartSpec: a numeric goal with any target and any stored series;     *)
(*    the pages that draw it.                                              *)
(*  - WideSpec: the same with targets and values of the largest finite     *)
(*    magnitude.                                                           *)
(*  - BoardSpec: up to MaxCards goals of any tracker type, pinned or not,  *)
(*    with any stored entries; the pages.                                  *)
(*  - CalendarSpec: a pinned check-in goal at the turn of any month of     *)
(*    CalendarYears; the pages.                                            *)
(*  - FormsSpec: the goal forms and the numeric entry form, from an empty  *)
(*    store.                                                               *)
(*  - EditSpec: the goal forms over a store with at most one goal, hidden  *)
(*    or not, of either sort_order.                                        *)
(*  - ListSpec: up to MaxListed goals, pinned or not, hidden or not, of    *)
(*    either sort_order; the pages.                                        *)
(***************************************************************************)
EXTENDS Integers, Sequences, FiniteSets, Bags, TLC

\* ---------------------------------------------------------------- bounds
MaxGoals    == 1      \* goals created through the form
MaxEntries  == 2      \* rows of goal_entries
MaxClock    == 3      \* ticks of the store's clock
MaxDate     == 1      \* calendar days
MaxInFlight == 2      \* delete requests in flight
MaxPoints   == 3      \* rows of a drawn chart series
MaxCards    == 2      \* goals of a drawn dashboard
MaxListed   == 3      \* goals of a drawn goals table
MaxValue    == 2      \* values of a drawn chart series
MaxDouble   == 4      \* the largest magnitude a finite number has

\* ticks of created_at in one millisecond of getTime()
TicksPerMs == 2

\* milliseconds between the midnights of two consecutive days
MsPerDay == 86400000

Dates  == 0 .. MaxDate
Values == 0 .. MaxValue

\* the finite numbers of the largest magnitude, and 0
WideValues == {-MaxDouble, 0, MaxDouble}

\* ---------------------------------------------------------------- options
Null       == {}
Some(x)    == {x}
IsNull(o)  == o = {}
The(o)     == CHOOSE x \in o : TRUE

\* ---------------------------------------------------------------- rationals
RECURSIVE Gcd(_, _)
Gcd(a, b) == IF b = 0 THEN a ELSE Gcd(b, a % b)

Abs(n) == IF n < 0 THEN -n ELSE n

\* the rational n/d (d > 0) in lowest terms
Rat(n, d) ==
    LET g == Gcd(Abs(n), d)
    IN  <<n \div g, d \div g>>

\* the results of arithmetic that are not finite: 0/0 is NaN, 1/0 is
\* Infinity and -1/0 is -Infinity
NaN == <<0, 0>>

\* an integer above MaxDouble in magnitude is what a sum or a difference of
\* finite numbers overflows to: Infinity or -Infinity
Overflows(n) == Abs(n) > MaxDouble

\* p <= q; every comparison with NaN is false
RatLeq(p, q) ==
    /\ p # NaN
    /\ q # NaN
    /\ IF p[2] = 0 /\ q[2] = 0 THEN p[1] <= q[1]
       ELSE p[1] * q[2] <= q[1] * p[2]

\* ---------------------------------------------------------------- sequences
RECURSIVE SelectSeqOf(_, _)
Range(s) == {s[i] : i \in 1 .. Len(s)}

Min(S) == CHOOSE m \in S : \A x \in S : m <= x
Max(S) == CHOOSE m \in S : \A x \in S : m >= x

\* Array.prototype.filter with the predicate given as the set of kept elements
SelectSeqOf(s, keep) ==
    IF s = <<>> THEN <<>>
    ELSE IF Head(s) \in keep
         THEN <<Head(s)>> \o SelectSeqOf(Tail(s), keep)
         ELSE SelectSeqOf(Tail(s), keep)

\* the stable sort of Array.prototype.sort under a consistent comparator:
\* element i lands after every element that compares smaller and after every
\* earlier element that compares equal
StableSort(s, cmp) ==
    LET rank(i) == Cardinality({j \in 1 .. Len(s) : cmp[s[j], s[i]] < 0})
                 + Cardinality({j \in 1 .. i - 1 : cmp[s[j], s[i]] = 0}) + 1
    IN  [k \in 1 .. Len(s) |-> s[CHOOSE i \in 1 .. Len(s) : rank(i) = k]]

\* ---------------------------------------------------------------- time
\* new Date(created_at).getTime(): milliseconds, the sub-millisecond part dropped
getTime(created_at) == created_at \div TicksPerMs

\* new Date(entry_date).getTime(): the millisecond of that day's midnight
dateGetTime(entry_date) == entry_date * MsPerDay

\* ---------------------------------------------------------------- calendar
\* A Date is kept as its day number, the days from 1970-01-01 to its
\* calendar date; the time of day is left out.  The proleptic Gregorian
\* calendar of Date, for years from 0 on:
DaysFromCivil(y, m, d) ==
    LET yy  == IF m <= 2 THEN y - 1 ELSE y
        era == yy \div 400
        yoe == yy - era * 400
        mp  == IF m > 2 THEN m - 3 ELSE m + 9
        doy == (153 * mp + 2) \div 5 + d - 1
        doe == yoe * 365 + yoe \div 4 - yoe \div 100 + doy
    IN  era * 146097 + doe - 719468

Civil(n) ==
    LET z   == n + 719468
        era == z \div 146097
        doe == z - era * 146097
        yoe == (doe - doe \div 1460 + doe \div 36524 - doe \div 146096) \div 365
        doy == doe - (365 * yoe + yoe \div 4 - yoe \div 100)
        mp  == (5 * doy + 2) \div 153
        m   == IF mp < 10 THEN mp + 3 ELSE mp - 9
    IN  [year  |-> yoe + era * 400 + (IF m <= 2 THEN 1 ELSE 0),
         month |-> m,
         day   |-> doy - (153 * mp + 2) \div 5 + 1]

\* new Date(year, month, day): month counts from 0 and may be 12, day may be 0
DateOf(year, month, day) ==
    DaysFromCivil(year + (month \div 12), (month % 12) + 1, 1) + day - 1

getFullYear(date) == Civil(date).year
getMonth(date)    == Civil(date).month - 1
getDate(date)     == Civil(date).day
\* variant: weeks that start on Monday
getDayMondayFirst(date) == (date + 3) % 7

\* 1970-01-01 was a Thursday
getDay(date)      == (date + 4) % 7

\* the model's day 0 is 2024-06-30; entry_date and the clock's days count
\* from it
Epoch == DaysFromCivil(2024, 6, 30)

\* the text 'YYYY-MM-DD' of a day, as its three numbers
ISO(d) == Civil(Epoch + d)

\* the server's local date is the UTC date, the day before it or the day
\* after it, by its time zone and the time of day
TzShifts == {-1, 0, 1}

\* ---------------------------------------------------------------- store queries
\* .order("entry_date", asc).order("created_at", asc) over a set of rows
EntryBefore(a, b) ==
    \/ a.entry_date < b.entry_date
    \/ a.entry_date = b.entry_date /\ a.created_at < b.created_at

OrderEntries(rows) ==
    LET rank(e) == Cardinality({f \in rows : EntryBefore(f, e)}) + 1
    IN  [k \in 1 .. Cardinality(rows) |-> CHOOSE e \in rows : rank(e) = k]

\* ---------------------------------------------------------------- charts
width    == 320
height   == 120
paddingX == 16
paddingY == 12

\* entries.filter((e) => e.value !== null)
NumericOnly(entries) ==
    SelectSeqOf(entries, {e \in Range(entries) : ~IsNull(e.value)})

ValuesOf(numericEntries) ==
    [i \in 1 .. Len(numericEntries) |-> The(numericEntries[i].value)]

\* variant: the plot width is divided by the number of points
StepXByCount(n) == IF n > 1 THEN Rat(width - paddingX * 2, n) ELSE Rat(0, 1)

\* stepX = n > 1 ? (width - paddingX * 2) / (n - 1) : 0, as a rational
StepX(n) == IF n > 1 THEN Rat(width - paddingX * 2, n - 1) ELSE Rat(0, 1)

\* a + k * q for integers a, k and a rational q
AddTimes(a, k, q) == Rat(a * q[2] + k * q[1], q[2])

\* a - (n / d) * b for integers a, b > 0 and differences n and d > 0:
\* Infinity / Infinity is NaN, a finite n over Infinity is 0, and an
\* infinite n over a finite d is infinite
SubScaled(a, n, d, b) ==
    IF Overflows(d)
    THEN IF Overflows(n) THEN NaN ELSE Rat(a, 1)
    ELSE IF Overflows(n) THEN <<IF n > 0 THEN -1 ELSE 1, 0>>
         ELSE Rat(a * d - n * b, d)

\* variant: the fallback is 2
RangeOrTwo(lo, hi) == IF hi - lo = 0 THEN 2 ELSE hi - lo

\* scaleMax - scaleMin || 1
RangeOrOne(lo, hi) == IF hi - lo = 0 THEN 1 ELSE hi - lo

\* variant: the scale starts at the smallest entry value
DashScaleMinOfEntries(minVal, targetValue) == minVal

\* the dashboard chart; Null when it returns null
DashScaleMin(minVal, targetValue) ==
    IF ~IsNull(targetValue) THEN Min({minVal, The(targetValue)}) ELSE minVal

DashScaleMax(maxVal, targetValue) ==
    IF ~IsNull(targetValue) THEN Max({maxVal, The(targetValue)}) ELSE maxVal

DashTargetY(hasTarget, targetValue, scaleMin, range) ==
    IF hasTarget /\ range > 0
    THEN Some(SubScaled(height - paddingY, The(targetValue) - scaleMin, range,
                        height - paddingY * 2))
    ELSE Null

\* variant: the line is left out on the edges of the plot
DashTargetLineInside(hasTarget, targetY) ==
    /\ hasTarget
    /\ ~IsNull(targetY)
    /\ ~RatLeq(The(targetY), Rat(paddingY, 1))
    /\ ~RatLeq(Rat(height - paddingY, 1), The(targetY))

\* the JSX condition under which the target <line> is rendered
DashTargetLine(hasTarget, targetY) ==
    /\ hasTarget
    /\ ~IsNull(targetY)
    /\ RatLeq(Rat(paddingY, 1), The(targetY))
    /\ RatLeq(The(targetY), Rat(height - paddingY, 1))

DashPoints(numericEntries, scaleMin, range) ==
    [i \in 1 .. Len(numericEntries) |->
        [x |-> AddTimes(paddingX, i - 1, StepX(Len(numericEntries))),
         y |-> SubScaled(height - paddingY,
                         The(numericEntries[i].value) - scaleMin, range,
                         height - paddingY * 2)]]

\* variant: the labels show the ends of the plotting scale
DashLabelsOfScale(minVal, maxVal, scaleMin, scaleMax, unit) ==
    [min |-> <<scaleMin, unit>>, max |-> <<scaleMax, unit>>]

\* Min: {minVal}{unit}, Max: {maxVal}{unit}
DashLabels(minVal, maxVal, scaleMin, scaleMax, unit) ==
    [min |-> <<minVal, unit>>, max |-> <<maxVal, unit>>]

DashNumericChart(entries, unit, targetValue) ==
    LET numericEntries == NumericOnly(entries)
        values    == Range(ValuesOf(numericEntries))
        minVal    == Min(values)
        maxVal    == Max(values)
        hasTarget == ~IsNull(targetValue)
        scaleMin  == DashScaleMin(minVal, targetValue)
        scaleMax  == DashScaleMax(maxVal, targetValue)
        range     == RangeOrOne(scaleMin, scaleMax)
        targetY   == DashTargetY(hasTarget, targetValue, scaleMin, range)
    IN  IF Len(numericEntries) = 0 THEN Null
        ELSE Some([source     |-> numericEntries,
                   minLabel   |-> DashLabels(minVal, maxVal, scaleMin, scaleMax,
                                             unit).min,
                   maxLabel   |-> DashLabels(minVal, maxVal, scaleMin, scaleMax,
                                             unit).max,
                   hasTarget  |-> hasTarget,
                   scaleMin   |-> scaleMin,
                   scaleMax   |-> scaleMax,
                   range      |-> range,
                   points     |-> DashPoints(numericEntries, scaleMin, range),
                   targetY    |-> targetY,
                   targetLine |-> DashTargetLine(hasTarget, targetY)])

\* variant: values are measured from 0
DetailPointsFromZero(numericEntries, minVal, range) ==
    [i \in 1 .. Len(numericEntries) |->
        [x |-> AddTimes(paddingX, i - 1, StepX(Len(numericEntries))),
         y |-> SubScaled(height - paddingY,
                         The(numericEntries[i].value), range,
                         height - paddingY * 2)]]

\* the goal detail chart; Null when it returns null
DetailPoints(numericEntries, minVal, range) ==
    [i \in 1 .. Len(numericEntries) |->
        [x |-> AddTimes(paddingX, i - 1, StepX(Len(numericEntries))),
         y |-> SubScaled(height - paddingY,
                         The(numericEntries[i].value) - minVal, range,
                         height - paddingY * 2)]]

DetailNumericChart(numericEntries, unit) ==
    LET values == Range(ValuesOf(numericEntries))
        minVal == Min(values)
        maxVal == Max(values)
        range  == RangeOrOne(minVal, maxVal)
    IN  IF Len(numericEntries) = 0 THEN Null
        ELSE Some([source   |-> numericEntries,
                   minLabel |-> <<minVal, unit>>,
                   maxLabel |-> <<maxVal, unit>>,
                   range    |-> range,
                   points   |-> DetailPoints(numericEntries, minVal, range)])


\* ---------------------------------------------------------------- form inputs
\* what a text box can hold: nothing, a word, a numeral, an out-of-range numeral
Numerals    == {ToString(v) : v \in Values}
NumberTexts == {"", "abc", "1e999", "0"}

\* Number(text): a finite number, NaN or Infinity
Number(text) ==
    IF text \in Numerals
    THEN [kind |-> "finite", n |-> CHOOSE v \in Values : ToString(v) = text]
    ELSE IF text = "" THEN [kind |-> "finite", n |-> 0]
    ELSE IF text = "1e999" THEN [kind |-> "Infinity", n |-> 0]
    ELSE [kind |-> "NaN", n |-> 0]

isNaN(x) == x.kind = "NaN"

\* variant: a body that carries every number as it is
JsonNumberAsIs(x) == Some(x.n)

\* a number in the JSON body of a request: NaN and Infinity are written as null
JsonNumber(x) == IF x.kind = "finite" THEN Some(x.n) ELSE Null

\* text.trim() || null
TrimOrNull(text) == IF text = "" THEN "NULL" ELSE text

\* ---------------------------------------------------------------- state
VARIABLES
    now,              \* the clock, in ticks
    today,            \* the calendar day
    goals,            \* table goals: a sequence of rows, id = position
    goal_entries,     \* table goal_entries: a set of rows
    pending,          \* requests of the detail page in flight, a bag
    route,            \* the page shown
    goalId,           \* the [id] parameter of the detail and edit routes
    dash,             \* what the render of the dashboard or list shown was given
    errorMessage,     \* new / edit page
    goal, entries, loading, loadError,          \* detail page
    savingEntry, entryError, deletingEntryId    \* detail page

vars   == <<now, today, goals, goal_entries, pending, route, goalId, dash,
            errorMessage, goal, entries, loading, loadError, savingEntry,
            entryError, deletingEntryId>>

\* no page has been opened yet: /goals is shown and every page component
\* holds its useState defaults
InitPages ==
    /\ pending = EmptyBag
    /\ route = "goals"
    /\ goalId = 0
    /\ dash = Null
    /\ errorMessage = Null
    /\ goal = Null
    /\ entries = <<>>
    /\ loading = TRUE
    /\ loadError = Null
    /\ savingEntry = FALSE
    /\ entryError = Null
    /\ deletingEntryId = Null

\* the tables as the schema creates them
Init ==
    /\ now = 0
    /\ today = 0
    /\ goals = <<>>
    /\ goal_entries = {}
    /\ InitPages

\* the state of a page component that is not mounted (its useState defaults)
DetailUnmounted ==
    /\ goal' = Null
    /\ entries' = <<>>
    /\ loading' = TRUE
    /\ loadError' = Null
    /\ savingEntry' = FALSE
    /\ entryError' = Null
    /\ deletingEntryId' = Null

Sent(reqs, req)     == reqs (+) SetToBag({req})
Answered(reqs, req) == reqs (-) SetToBag({req})

\* ---------------------------------------------------------------- time
\* the readings a handler can take of the store's clock and of the calendar
Ticks == now .. MaxClock - 1
Days  == IF today \in Dates THEN today .. MaxDate ELSE {today}

\* ---------------------------------------------------------------- goal forms
TrackerTypes == {"unset", "checkin", "numeric"}
Titles       == {"", "Goal"}
UnitTexts    == {"", "kg"}

\* variant: the unit and the target of the form are sent for every tracker
GoalColumnsOfEveryTracker(trackerType, unit, targetValue, isPinned) ==
    [tracker_type |-> IF trackerType = "unset" THEN "NULL" ELSE trackerType,
     unit         |-> TrimOrNull(unit),
     target_value |-> IF targetValue # ""
                      THEN JsonNumber(Number(targetValue))
                      ELSE Null,
     is_pinned    |-> isPinned]

\* the columns both submit handlers compute from the form
GoalColumns(trackerType, unit, targetValue, isPinned) ==
    [tracker_type |-> IF trackerType = "unset" THEN "NULL" ELSE trackerType,
     unit         |-> IF trackerType = "numeric" THEN TrimOrNull(unit) ELSE "NULL",
     target_value |-> IF trackerType = "numeric" /\ targetValue # ""
                      THEN JsonNumber(Number(targetValue))
                      ELSE Null,
     is_pinned    |-> isPinned]

\* the row /goals/new inserts
NewGoalRow(id, trackerType, unit, targetValue, isPinned) ==
    [id |-> id, is_hidden |-> FALSE, sort_order |-> 100]
    @@ GoalColumns(trackerType, unit, targetValue, isPinned)

TargetIsNaN(trackerType, targetValue) ==
    trackerType = "numeric" /\ targetValue # "" /\ isNaN(Number(targetValue))

\* leaving the page shown for another one: page state starts over.  The
\* model leaves a page only when none of its requests is in flight.
Navigate(to, id) ==
    /\ route' = to
    /\ goalId' = id
    /\ errorMessage' = Null
    /\ pending = EmptyBag
    /\ pending' = EmptyBag
    /\ DetailUnmounted

\* /goals/new
OpenNew ==
    /\ Navigate("new", 0)
    /\ dash' = Null
    /\ UNCHANGED <<now, today, goals, goal_entries>>

\* /goals/[id]/edit
OpenEdit(g) ==
    /\ g \in 1 .. Len(goals)
    /\ Navigate("edit", g)
    /\ dash' = Null
    /\ UNCHANGED <<now, today, goals, goal_entries>>

\* /goals/new handleSubmit
NewGoalSubmit(title, trackerType, unit, targetValue, isPinned, ok) ==
    /\ route = "new"
    /\ IF title = ""
       THEN /\ errorMessage' = Some("Title is required.")
            /\ UNCHANGED <<goals, route>>
       ELSE IF TargetIsNaN(trackerType, targetValue)
       THEN /\ errorMessage' = Some("Target value must be a number.")
            /\ UNCHANGED <<goals, route>>
       ELSE IF ok /\ Len(goals) < MaxGoals
       THEN /\ goals' = Append(goals,
                   NewGoalRow(Len(goals) + 1, trackerType, unit, targetValue,
                              isPinned))
            /\ route' = "goals"
            /\ errorMessage' = Null
       ELSE /\ errorMessage' = Some("Failed to create the goal. Please try again.")
            /\ UNCHANGED <<goals, route>>
    /\ UNCHANGED <<now, today, goal_entries, pending, goalId, dash, goal, entries,
                   loading, loadError, savingEntry, entryError, deletingEntryId>>

\* variant: the update also writes the two columns the create form writes
EditGoalSubmitAsCreate(title, trackerType, unit, targetValue, isPinned, ok) ==
    /\ route = "edit"
    /\ IF title = ""
       THEN /\ errorMessage' = Some("Title is required.")
            /\ UNCHANGED <<goals, route, goalId>>
       ELSE IF TargetIsNaN(trackerType, targetValue)
       THEN /\ errorMessage' = Some("Target value must be a number.")
            /\ UNCHANGED <<goals, route, goalId>>
       ELSE IF ok
       THEN /\ goals' = [goals EXCEPT ![goalId] =
                   NewGoalRow(goalId, trackerType, unit, targetValue, isPinned)]
            /\ route' = "goals"
            /\ goalId' = 0
            /\ errorMessage' = Null
       ELSE /\ errorMessage' = Some("Failed to save changes. Please try again.")
            /\ UNCHANGED <<goals, route, goalId>>
    /\ UNCHANGED <<now, today, goal_entries, pending, dash, goal, entries,
                   loading, loadError, savingEntry, entryError, deletingEntryId>>

\* /goals/[id]/edit handleSubmit
EditGoalSubmit(title, trackerType, unit, targetValue, isPinned, ok) ==
    /\ route = "edit"
    /\ IF title = ""
       THEN /\ errorMessage' = Some("Title is required.")
            /\ UNCHANGED <<goals, route, goalId>>
       ELSE IF TargetIsNaN(trackerType, targetValue)
       THEN /\ errorMessage' = Some("Target value must be a number.")
            /\ UNCHANGED <<goals, route, goalId>>
       ELSE IF ok
       THEN /\ goals' = [goals EXCEPT ![goalId] =
                   GoalColumns(trackerType, unit, targetValue, isPinned) @@ @]
            /\ route' = "goals"
            /\ goalId' = 0
            /\ errorMessage' = Null
       ELSE /\ errorMessage' = Some("Failed to save changes. Please try again.")
            /\ UNCHANGED <<goals, route, goalId>>
    /\ UNCHANGED <<now, today, goal_entries, pending, dash, goal, entries,
                   loading, loadError, savingEntry, entryError, deletingEntryId>>

\* ---------------------------------------------------------------- dashboard
\* .order("is_pinned", desc).order("sort_order", asc): rows that tie on both
\* keys come back in an order the store chooses
\* variant: ordered by sort_order alone
GoalBeforeBySortOrder(a, b) == a.sort_order < b.sort_order

GoalBefore(a, b) ==
    \/ a.is_pinned /\ ~b.is_pinned
    \/ a.is_pinned = b.is_pinned /\ a.sort_order < b.sort_order

GoalOrders(rows) ==
    {s \in [1 .. Cardinality(rows) -> rows] :
        /\ \A i, j \in DOMAIN s : i # j => s[i] # s[j]
        /\ \A i, j \in DOMAIN s : i < j => ~GoalBefore(s[j], s[i])}

\* .from("goals").select("*").eq("is_hidden", false)
VisibleGoals == {r \in Range(goals) : ~r.is_hidden}

\* .from("goal_entries").select("*").in("goal_id", goalIds), ordered
EntriesOfGoals(goalIds) ==
    OrderEntries({e \in goal_entries : e.goal_id \in goalIds})

\* the comparator of the latest-entry sort
compareLatest(a, b) ==
    IF a.entry_date = b.entry_date
    THEN getTime(b.created_at) - getTime(a.created_at)
    ELSE dateGetTime(b.entry_date) - dateGetTime(a.entry_date)

GoalsWithEntries(rows) == {e.goal_id : e \in Range(rows)}

\* entries.forEach: arr.push(entry) per goal_id
entriesByGoalOf(rows) ==
    [g \in GoalsWithEntries(rows) |->
        SelectSeqOf(rows, {e \in Range(rows) : e.goal_id = g})]

\* entries.slice().sort(...).forEach: the first entry seen per goal_id
latestEntriesByGoalOf(rows) ==
    LET sorted == StableSort(rows, [a, b \in Range(rows) |-> compareLatest(a, b)])
    IN  [g \in GoalsWithEntries(rows) |->
            sorted[Min({i \in 1 .. Len(sorted) : sorted[i].goal_id = g})]]

EmptyMap == <<>>

\* variant: a failed entries read ends like a failed goals read
getDashboardDataEntriesErrorDropsGoals(goalRows, entryRows) ==
    IF IsNull(goalRows)
    THEN [goals |-> <<>>, latestEntriesByGoal |-> EmptyMap,
          entriesByGoal |-> EmptyMap,
          queried |-> <<"goals">>,
          console |-> <<"[dashboard] goals error">>]
    ELSE IF The(goalRows) = <<>>
    THEN [goals |-> <<>>, latestEntriesByGoal |-> EmptyMap,
          entriesByGoal |-> EmptyMap,
          queried |-> <<"goals">>,
          console |-> <<>>]
    ELSE IF IsNull(entryRows)
    THEN [goals |-> <<>>, latestEntriesByGoal |-> EmptyMap,
          entriesByGoal |-> EmptyMap,
          queried |-> <<"goals", "goal_entries">>,
          console |-> <<"[dashboard] entries error">>]
    ELSE [goals |-> The(goalRows),
          latestEntriesByGoal |-> latestEntriesByGoalOf(The(entryRows)),
          entriesByGoal |-> entriesByGoalOf(The(entryRows)),
          queried |-> <<"goals", "goal_entries">>,
          console |-> <<>>]

\* variant: the entries are read also when no goal came back
getDashboardDataReadsEntriesAnyway(goalRows, entryRows) ==
    IF IsNull(goalRows)
    THEN [goals |-> <<>>, latestEntriesByGoal |-> EmptyMap,
          entriesByGoal |-> EmptyMap,
          queried |-> <<"goals">>,
          console |-> <<"[dashboard] goals error">>]
    ELSE IF IsNull(entryRows)
    THEN [goals |-> The(goalRows), latestEntriesByGoal |-> EmptyMap,
          entriesByGoal |-> EmptyMap,
          queried |-> <<"goals", "goal_entries">>,
          console |-> <<"[dashboard] entries error">>]
    ELSE [goals |-> The(goalRows),
          latestEntriesByGoal |-> latestEntriesByGoalOf(The(entryRows)),
          entriesByGoal |-> entriesByGoalOf(The(entryRows)),
          queried |-> <<"goals", "goal_entries">>,
          console |-> <<>>]

\* goalRows, entryRows: what the two reads return, Null for an error.
\* Besides the three fields the function returns, the record keeps the
\* tables it queried and the lines it wrote to the console.
getDashboardData(goalRows, entryRows) ==
    IF IsNull(goalRows)
    THEN [goals |-> <<>>, latestEntriesByGoal |-> EmptyMap,
          entriesByGoal |-> EmptyMap,
          queried |-> <<"goals">>,
          console |-> <<"[dashboard] goals error">>]
    ELSE IF The(goalRows) = <<>>
    THEN [goals |-> <<>>, latestEntriesByGoal |-> EmptyMap,
          entriesByGoal |-> EmptyMap,
          queried |-> <<"goals">>,
          console |-> <<>>]
    ELSE IF IsNull(entryRows)
    THEN [goals |-> The(goalRows), latestEntriesByGoal |-> EmptyMap,
          entriesByGoal |-> EmptyMap,
          queried |-> <<"goals", "goal_entries">>,
          console |-> <<"[dashboard] entries error">>]
    ELSE [goals |-> The(goalRows),
          latestEntriesByGoal |-> latestEntriesByGoalOf(The(entryRows)),
          entriesByGoal |-> entriesByGoalOf(The(entryRows)),
          queried |-> <<"goals", "goal_entries">>,
          console |-> <<>>]

\* map.get(id): Null for undefined
MapGet(map, id) == IF id \in DOMAIN map THEN Some(map[id]) ELSE Null

\* variant: a check-in goal without entry reads as not done
formatLatestSummaryNotDone(trackerType, entry, unit) ==
    IF IsNull(entry)
    THEN IF trackerType = "checkin" THEN <<"Last check-in: Not done">>
         ELSE <<"No entries yet">>
    ELSE IF trackerType = "checkin"
    THEN IF The(entry).is_done = Some(TRUE)
         THEN <<"Last check-in: Done", The(entry).entry_date>>
         ELSE IF The(entry).is_done = Some(FALSE)
         THEN <<"Last check-in: Not done", The(entry).entry_date>>
         ELSE <<"Last check-in: Logged", The(entry).entry_date>>
    ELSE IF trackerType = "numeric"
    THEN IF IsNull(The(entry).value)
         THEN <<"Last entry:", The(entry).entry_date>>
         ELSE <<"Last entry:", The(The(entry).value), unit, The(entry).entry_date>>
    ELSE <<"Last update:", The(entry).entry_date>>

formatLatestSummary(trackerType, entry, unit) ==
    IF IsNull(entry) THEN <<"No entries yet">>
    ELSE IF trackerType = "checkin"
    THEN IF The(entry).is_done = Some(TRUE)
         THEN <<"Last check-in: Done", The(entry).entry_date>>
         ELSE IF The(entry).is_done = Some(FALSE)
         THEN <<"Last check-in: Not done", The(entry).entry_date>>
         ELSE <<"Last check-in: Logged", The(entry).entry_date>>
    ELSE IF trackerType = "numeric"
    THEN IF IsNull(The(entry).value)
         THEN <<"Last entry:", The(entry).entry_date>>
         ELSE <<"Last entry:", The(The(entry).value), unit, The(entry).entry_date>>
    ELSE <<"Last update:", The(entry).entry_date>>

\* variant: every entry counts as done
doneDatesOfAnyEntry(rows) ==
    {ISO(e.entry_date) : e \in Range(rows)}

\* entries.forEach: the dates of the entries with a truthy is_done
doneDatesOf(rows) ==
    {ISO(e.entry_date) : e \in {f \in Range(rows) : f.is_done = Some(TRUE)}}

\* the tag of a day cell, by its className
CellTag(isDone, isToday) ==
    IF isDone THEN "done" ELSE IF isToday THEN "today" ELSE "plain"

\* renderCheckinCalendar; clock holds the two readings it takes once it is
\* past its early returns: baseDate, the local date new Date() gives, as a
\* day, and todayISO, the UTC day the later new Date().toISOString() gives;
\* Null when it returns null
renderCheckinCalendar(rows, clock) ==
    LET doneDates    == doneDatesOf(rows)
        baseDate     == The(clock).baseDate
        todayISO     == The(clock).todayISO
        year         == getFullYear(Epoch + baseDate)
        month        == getMonth(Epoch + baseDate)
        firstDay     == DateOf(year, month, 1)
        startWeekday == getDay(firstDay)
        daysInMonth  == getDate(DateOf(year, month + 1, 0))
        cells        == [i \in 1 .. startWeekday |-> Null]
                        \o [d \in 1 .. daysInMonth |-> Some(d)]
        dateKey(day) == [year |-> year, month |-> month + 1, day |-> day]
    IN  IF rows = <<>> \/ doneDates = {} THEN Null
        ELSE Some([year      |-> year,
                   month     |-> month,
                   doneDates |-> doneDates,
                   todayISO  |-> ISO(todayISO),
                   cells     |-> cells,
                   tags      |-> [i \in DOMAIN cells |->
                                    IF IsNull(cells[i]) THEN "blank"
                                    ELSE CellTag(dateKey(The(cells[i])) \in doneDates,
                                                 dateKey(The(cells[i])) = ISO(todayISO))]])

\* variant: every pinned goal with numeric entries gets a chart
renderGoalCardAnyTracker(data, g, isPinned) ==
    LET latest == MapGet(data.latestEntriesByGoal, g.id)
        rows   == IF g.id \in DOMAIN data.entriesByGoal
                  THEN data.entriesByGoal[g.id] ELSE <<>>
    IN  [goal     |-> g,
         entries  |-> rows,
         summary  |-> formatLatestSummary(g.tracker_type, latest, g.unit),
         calendar |-> IF isPinned /\ g.tracker_type = "checkin"
                      THEN renderCheckinCalendar(rows, data.clock)
                      ELSE Null,
         chart    |-> IF isPinned
                      THEN DashNumericChart(rows, g.unit, g.target_value)
                      ELSE Null]

\* variant: the visuals do not depend on the section
renderGoalCardAnySection(data, g, isPinned) ==
    LET latest == MapGet(data.latestEntriesByGoal, g.id)
        rows   == IF g.id \in DOMAIN data.entriesByGoal
                  THEN data.entriesByGoal[g.id] ELSE <<>>
    IN  [goal     |-> g,
         entries  |-> rows,
         summary  |-> formatLatestSummary(g.tracker_type, latest, g.unit),
         calendar |-> IF g.tracker_type = "checkin" /\ ~IsNull(data.clock)
                      THEN renderCheckinCalendar(rows, data.clock)
                      ELSE Null,
         chart    |-> IF g.tracker_type = "numeric"
                      THEN DashNumericChart(rows, g.unit, g.target_value)
                      ELSE Null]

renderGoalCard(data, g, isPinned) ==
    LET latest == MapGet(data.latestEntriesByGoal, g.id)
        rows   == IF g.id \in DOMAIN data.entriesByGoal
                  THEN data.entriesByGoal[g.id] ELSE <<>>
    IN  [goal     |-> g,
         entries  |-> rows,
         summary  |-> formatLatestSummary(g.tracker_type, latest, g.unit),
         calendar |-> IF isPinned /\ g.tracker_type = "checkin"
                      THEN renderCheckinCalendar(rows, data.clock)
                      ELSE Null,
         chart    |-> IF isPinned /\ g.tracker_type = "numeric"
                      THEN DashNumericChart(rows, g.unit, g.target_value)
                      ELSE Null]

\* variant: the other goals are listed last to first
DashboardPageOtherReversed(data) ==
    LET pinnedGoals == SelectSeqOf(data.goals, {g \in Range(data.goals) : g.is_pinned})
        otherGoals  == SelectSeqOf(data.goals, {g \in Range(data.goals) : ~g.is_pinned})
    IN  [pinned |-> [i \in 1 .. Len(pinnedGoals) |->
                        renderGoalCard(data, pinnedGoals[i], TRUE)],
         other  |-> [i \in 1 .. Len(otherGoals) |->
                        renderGoalCard(data, otherGoals[Len(otherGoals) + 1 - i], FALSE)]]

\* DashboardPage: the cards of the two sections
DashboardPage(data) ==
    LET pinnedGoals == SelectSeqOf(data.goals, {g \in Range(data.goals) : g.is_pinned})
        otherGoals  == SelectSeqOf(data.goals, {g \in Range(data.goals) : ~g.is_pinned})
    IN  [pinned |-> [i \in 1 .. Len(pinnedGoals) |->
                        renderGoalCard(data, pinnedGoals[i], TRUE)],
         other  |-> [i \in 1 .. Len(otherGoals) |->
                        renderGoalCard(data, otherGoals[i], FALSE)]]

\* renderCheckinCalendar gets past its two early returns for some card: only
\* then does the render read the clock
ReadsClock(data) ==
    \E g \in Range(data.goals) :
        /\ g.is_pinned /\ g.tracker_type = "checkin"
        /\ g.id \in DOMAIN data.entriesByGoal
        /\ doneDatesOf(data.entriesByGoal[g.id]) # {}

\* the readings of one render: the local date first, the UTC day after it
ClockReadings ==
    {[baseDate |-> t[1] + t[2], todayISO |-> t[3]] :
        t \in {u \in Days \X TzShifts \X Days : u[3] \in {u[1], u[1] + 1}}}

\* a request for / : the server reads the store and renders; clock is Null
\* when the render does not read it.  dash keeps what the render was given:
\* the data and the clock readings.
OpenDashboard(goalsOk, entriesOk, order, clock) ==
    LET data == getDashboardData(
                   IF goalsOk THEN Some(order) ELSE Null,
                   IF entriesOk
                   THEN Some(EntriesOfGoals({order[i].id : i \in DOMAIN order}))
                   ELSE Null)
    IN  /\ order \in GoalOrders(VisibleGoals)
        /\ Navigate("dashboard", 0)
        /\ IF ReadsClock(data)
           THEN /\ clock \in {Some(c) : c \in ClockReadings}
                /\ today' = The(clock).todayISO
           ELSE /\ clock = Null
                /\ today' = today
        /\ dash' = Some(data @@ [clock |-> clock])
        /\ UNCHANGED <<now, goals, goal_entries>>

\* getGoals of /goals; goalRows is what its read returns, Null for an error
getGoals(goalRows) == IF IsNull(goalRows) THEN <<>> ELSE The(goalRows)

\* a request for /goals: the server reads the goals and renders the list;
\* dash keeps the list the render was given
OpenGoals(ok, order) ==
    /\ order \in GoalOrders(VisibleGoals)
    /\ Navigate("goals", 0)
    /\ dash' = Some([goals |-> getGoals(IF ok THEN Some(order) ELSE Null)])
    /\ UNCHANGED <<now, today, goals, goal_entries>>

\* ---------------------------------------------------------------- goal detail
\* /goals/[id]: the component mounts and starts fetchGoalAndEntries
OpenDetail(g) ==
    /\ g \in 1 .. Len(goals)
    /\ Navigate("detail", g)
    /\ dash' = Null
    /\ UNCHANGED <<now, today, goals, goal_entries>>

\* fetchGoalAndEntries up to its second await
FetchGoal(ok) ==
    /\ route = "detail" /\ loading /\ IsNull(goal)
    /\ IF ok
       THEN /\ goal' = Some(goals[goalId])
            /\ UNCHANGED <<loading, loadError>>
       ELSE /\ loadError' = Some("Failed to load this goal.")
            /\ loading' = FALSE
            /\ UNCHANGED goal
    /\ UNCHANGED <<now, today, goals, goal_entries, pending, route, goalId, dash,
                   errorMessage, entries, savingEntry, entryError,
                   deletingEntryId>>

\* fetchGoalAndEntries from its second await on
FetchEntries(ok) ==
    /\ route = "detail" /\ loading /\ ~IsNull(goal)
    /\ entries' = IF ok THEN EntriesOfGoals({goalId}) ELSE <<>>
    /\ loading' = FALSE
    /\ UNCHANGED <<now, today, goals, goal_entries, pending, route, goalId, dash,
                   errorMessage, goal, loadError, savingEntry, entryError,
                   deletingEntryId>>

\* the page is past its loading and error returns
DetailShown == route = "detail" /\ ~loading /\ IsNull(loadError) /\ ~IsNull(goal)

uiTrackerType ==
    IF IsNull(goal) \/ The(goal).tracker_type = "NULL"
    THEN "unset" ELSE The(goal).tracker_type

numericEntries == NumericOnly(entries)

\* variant: oldest first
compareHistoryOldestFirst(a, b) ==
    IF a.entry_date = b.entry_date
    THEN getTime(a.created_at) - getTime(b.created_at)
    ELSE dateGetTime(a.entry_date) - dateGetTime(b.entry_date)

\* the comparator of the History list
compareHistory(a, b) ==
    IF a.entry_date = b.entry_date
    THEN getTime(b.created_at) - getTime(a.created_at)
    ELSE dateGetTime(b.entry_date) - dateGetTime(a.entry_date)

\* [...entries].sort(...)
History(list) ==
    StableSort(list, [a, b \in Range(list) |-> compareHistory(a, b)])

\* room for one more row within the bounds
CanInsert == Cardinality(goal_entries) < MaxEntries

\* what the store does with a request and what the caller gets: the store
\* applies what it answers with data, does not apply what it answers with an
\* error, and may or may not have applied a request whose call throws
Answers == {<<"data", TRUE>>, <<"error", FALSE>>, <<"throw", TRUE>>,
            <<"throw", FALSE>>}

\* .insert({...}).select().single(): the row as stored
Inserted(entry_date, is_done, value, at) ==
    [id |-> at, goal_id |-> The(goal).id, entry_date |-> entry_date,
     is_done |-> is_done, value |-> value, created_at |-> at]

\* variant: the row joins the list whenever the store applied the insert
InsertAndAppendWhenApplied(row, outcome, applied, failed) ==
    /\ CanInsert
    /\ <<outcome, applied>> \in Answers
    /\ row.created_at \in Ticks
    /\ IF applied
       THEN goal_entries' = goal_entries \cup {row} /\ now' = row.created_at + 1
       ELSE UNCHANGED <<goal_entries, now>>
    /\ entries' = IF applied THEN Append(entries, row) ELSE entries
    /\ entryError' = IF outcome = "data" THEN Null
                     ELSE IF outcome = "error" THEN Some(failed)
                     ELSE Some("Something went wrong. Please try again.")
    /\ savingEntry' = FALSE

\* the insert of both add handlers and what follows its await
InsertAndAppend(row, outcome, applied, failed) ==
    /\ CanInsert
    /\ <<outcome, applied>> \in Answers
    /\ row.created_at \in Ticks
    /\ IF applied
       THEN goal_entries' = goal_entries \cup {row} /\ now' = row.created_at + 1
       ELSE UNCHANGED <<goal_entries, now>>
    /\ entries' = IF outcome = "data" THEN Append(entries, row) ELSE entries
    /\ entryError' = IF outcome = "data" THEN Null
                     ELSE IF outcome = "error" THEN Some(failed)
                     ELSE Some("Something went wrong. Please try again.")
    /\ savingEntry' = FALSE

\* handleAddCheckin; todayISO is the day it reads, at the tick the store reads
handleAddCheckin(todayISO, at, outcome, applied) ==
    /\ DetailShown /\ uiTrackerType = "checkin" /\ ~savingEntry
    /\ todayISO \in Days
    /\ today' = todayISO
    /\ InsertAndAppend(Inserted(todayISO, Some(TRUE), Null, at), outcome, applied,
                       "Failed to save your check-in. Please try again.")
    /\ UNCHANGED <<goals, pending, route, goalId, dash, errorMessage,
                   goal, loading, loadError, deletingEntryId>>

\* handleAddNumeric; numericDate is Null for an emptied date box
handleAddNumeric(numericDate, numericValue, todayISO, at, outcome, applied) ==
    /\ DetailShown /\ uiTrackerType = "numeric" /\ ~savingEntry
    /\ todayISO \in Days
    /\ IF numericValue = ""
       THEN /\ entryError' = Some("Value is required.")
            /\ UNCHANGED <<now, today, goal_entries, entries, savingEntry>>
       ELSE IF isNaN(Number(numericValue))
       THEN /\ entryError' = Some("Value must be a number.")
            /\ UNCHANGED <<now, today, goal_entries, entries, savingEntry>>
       ELSE /\ today' = IF IsNull(numericDate) THEN todayISO ELSE today
            /\ InsertAndAppend(
                   Inserted(IF IsNull(numericDate) THEN todayISO
                            ELSE The(numericDate),
                            Null, JsonNumber(Number(numericValue)), at),
                   outcome, applied,
                   "Failed to save your entry. Please try again.")
    /\ UNCHANGED <<goals, pending, route, goalId, dash, errorMessage,
                   goal, loading, loadError, deletingEntryId>>

\* handleDeleteEntry up to its await; ok is the answer to window.confirm
handleDeleteEntry(entryId, ok) ==
    /\ DetailShown
    /\ entryId \in {e.id : e \in Range(entries)}
    /\ deletingEntryId # Some(entryId)
    /\ IF ~ok
       THEN UNCHANGED <<deletingEntryId, entryError, pending>>
       ELSE /\ BagCardinality(pending) < MaxInFlight
            /\ deletingEntryId' = Some(entryId)
            /\ entryError' = Null
            /\ pending' = Sent(pending, entryId)
    /\ UNCHANGED <<now, today, goals, goal_entries, route, goalId, dash,
                   errorMessage, goal, entries, loading, loadError, savingEntry>>

\* variant: the entry leaves the list whatever the answer
DeleteResponseAlwaysFilters(entryId, outcome, applied) ==
    /\ BagIn(entryId, pending)
    /\ <<outcome, applied>> \in Answers
    /\ pending' = Answered(pending, entryId)
    /\ goal_entries' = IF applied
                       THEN {e \in goal_entries : e.id # entryId}
                       ELSE goal_entries
    /\ deletingEntryId' = Null
    /\ entries' = SelectSeqOf(entries, {e \in Range(entries) : e.id # entryId})
    /\ entryError' =
         IF outcome = "data" THEN entryError
         ELSE IF outcome = "throw"
         THEN Some("Something went wrong while deleting. Please try again.")
         ELSE Some("Failed to delete this entry. Please try again.")
    /\ UNCHANGED <<now, today, goals, route, goalId, dash, errorMessage, goal,
                   loading, loadError, savingEntry>>

\* the answer to the delete request for entryId, and what follows the await
DeleteResponse(entryId, outcome, applied) ==
    /\ BagIn(entryId, pending)
    /\ <<outcome, applied>> \in Answers
    /\ pending' = Answered(pending, entryId)
    /\ goal_entries' = IF applied
                       THEN {e \in goal_entries : e.id # entryId}
                       ELSE goal_entries
    /\ deletingEntryId' = Null
    /\ entries' = IF outcome = "data"
                  THEN SelectSeqOf(entries, {e \in Range(entries) : e.id # entryId})
                  ELSE entries
    /\ entryError' =
         IF outcome = "data" THEN entryError
         ELSE IF outcome = "throw"
         THEN Some("Something went wrong while deleting. Please try again.")
         ELSE Some("Failed to delete this entry. Please try again.")
    /\ UNCHANGED <<now, today, goals, route, goalId, dash, errorMessage, goal,
                   loading, loadError, savingEntry>>

\* ---------------------------------------------------------------- specification
Browse ==
    \/ \E ok \in BOOLEAN, order \in GoalOrders(VisibleGoals) : OpenGoals(ok, order)
    \/ \E goalsOk, entriesOk \in BOOLEAN, order \in GoalOrders(VisibleGoals),
          clock \in {Null} \cup {Some(c) : c \in ClockReadings} :
          OpenDashboard(goalsOk, entriesOk, order, clock)
    \/ \E g \in DOMAIN goals : OpenDetail(g)
    \/ \E ok \in BOOLEAN : FetchGoal(ok)
    \/ \E ok \in BOOLEAN : FetchEntries(ok)

EditGoals ==
    \/ OpenNew
    \/ \E g \in DOMAIN goals : OpenEdit(g)
    \/ \E title \in Titles, trackerType \in TrackerTypes, unit \in UnitTexts,
          targetValue \in NumberTexts, isPinned \in BOOLEAN, ok \in BOOLEAN :
          NewGoalSubmit(title, trackerType, unit, targetValue, isPinned, ok)
    \/ \E title \in Titles, trackerType \in TrackerTypes, unit \in UnitTexts,
          targetValue \in NumberTexts, isPinned \in BOOLEAN, ok \in BOOLEAN :
          EditGoalSubmit(title, trackerType, unit, targetValue, isPinned, ok)

EditEntries ==
    \/ \E todayISO \in Days, at \in Ticks, answer \in Answers :
          handleAddCheckin(todayISO, at, answer[1], answer[2])
    \/ \E numericDate \in {Null} \cup {Some(d) : d \in Dates},
          numericValue \in NumberTexts, todayISO \in Days, at \in Ticks,
          answer \in Answers :
          handleAddNumeric(numericDate, numericValue, todayISO, at,
                           answer[1], answer[2])
    \/ \E e \in Range(entries), ok \in BOOLEAN : handleDeleteEntry(e.id, ok)
    \/ \E entryId \in BagToSet(pending), answer \in Answers :
          DeleteResponse(entryId, answer[1], answer[2])

\* the application from an empty store
Next == Browse \/ EditGoals \/ EditEntries

Spec == Init /\ [][Next]_vars

\* the two add forms of the detail page
AddEntries ==
    \/ \E todayISO \in Days, at \in Ticks, answer \in Answers :
          handleAddCheckin(todayISO, at, answer[1], answer[2])
    \/ \E numericDate \in {Null} \cup {Some(d) : d \in Dates},
          numericValue \in NumberTexts, todayISO \in Days, at \in Ticks,
          answer \in Answers :
          handleAddNumeric(numericDate, numericValue, todayISO, at,
                           answer[1], answer[2])

\* the goal forms and both add forms, from an empty store
AddsNext == Browse \/ EditGoals \/ AddEntries

AddsSpec == Init /\ [][AddsNext]_vars

\* two pinned goals are set up, a numeric one and a check-in one, and the
\* user keeps their entries
EntriesInit ==
    /\ now = 0
    /\ today = 0
    /\ goals = <<NewGoalRow(1, "numeric", "kg", "", TRUE),
                 NewGoalRow(2, "checkin", "", "", TRUE)>>
    /\ goal_entries = {}
    /\ InitPages

EntriesNext == Browse \/ EditEntries

EntriesSpec == EntriesInit /\ [][EntriesNext]_vars

\* two goals are set up; both add forms and the pages
EntryAddsSpec == EntriesInit /\ [][Browse \/ AddEntries]_vars

\* any list of at most MaxCards goals, of every tracker type, pinned or not,
\* with at most MaxEntries entries left by the check-in and the numeric form
\* (a goal keeps its entries when its tracker type is edited); the user looks
\* at the pages
BoardGoals ==
    UNION {[1 .. n -> TrackerTypes \X BOOLEAN] : n \in 0 .. MaxCards}

BoardRow(t, g, isCheckin) ==
    [id |-> t, goal_id |-> g, entry_date |-> 0,
     is_done |-> IF isCheckin THEN Some(TRUE) ELSE Null,
     value |-> IF isCheckin THEN Null ELSE Some(1),
     created_at |-> t]

BoardEntries(n) ==
    LET slots   == 0 .. MaxEntries - 1
        choices == {Null} \cup {Some(<<g, k>>) : g \in 1 .. n, k \in BOOLEAN}
    IN  {{BoardRow(t, The(f[t])[1], The(f[t])[2]) :
            t \in {u \in slots : ~IsNull(f[u])}} : f \in [slots -> choices]}

BoardInit ==
    /\ now = MaxEntries
    /\ today = 0
    /\ \E b \in BoardGoals :
          /\ goals = [i \in DOMAIN b |->
                        NewGoalRow(i, b[i][1], IF b[i][1] = "numeric" THEN "kg" ELSE "",
                                   "", b[i][2])]
          /\ goal_entries \in BoardEntries(Len(b))
    /\ InitPages

BoardSpec == BoardInit /\ [][Browse]_vars

\* a pinned check-in goal on the last day of a month (the server's local date
\* may be the first of the next), with no check-in, a check-in of that day
\* or one of the day before; the user looks at the pages
CalendarYears == {2000, 2023, 2024, 2100}

CalendarDays ==
    {DateOf(y, m, 0) - Epoch : y \in CalendarYears, m \in 1 .. 12}

CheckinRow(t, entry_date) ==
    [id |-> t, goal_id |-> 1, entry_date |-> entry_date,
     is_done |-> Some(TRUE), value |-> Null, created_at |-> t]

CalendarInit ==
    /\ now = MaxClock
    /\ today \in CalendarDays
    /\ goals = <<NewGoalRow(1, "checkin", "", "", TRUE)>>
    /\ \E ages \in {{}, {0}, {1}} :
          goal_entries = {CheckinRow(0, today - a) : a \in ages}
    /\ InitPages

CalendarSpec == CalendarInit /\ [][Browse]_vars

\* the goal forms and the numeric entry form, from an empty store
FormsNext ==
    \/ Browse
    \/ EditGoals
    \/ \E numericDate \in {Null} \cup {Some(d) : d \in Dates},
          numericValue \in NumberTexts, todayISO \in Days, at \in Ticks,
          answer \in Answers :
          handleAddNumeric(numericDate, numericValue, todayISO, at,
                           answer[1], answer[2])

FormsSpec == Init /\ [][FormsNext]_vars

\* any table of at most MaxListed goals without tracker: pinned or not,
\* hidden or not (is_hidden is set in the store, no page writes it), with the
\* sort_order of the create form or the column default; the user looks at
\* the pages
SortOrders == {100, 1000}

ListedGoals ==
    UNION {[1 .. n -> BOOLEAN \X BOOLEAN \X SortOrders] : n \in 0 .. MaxListed}

ListInit ==
    /\ now = 0
    /\ today = 0
    /\ \E b \in ListedGoals :
          goals = [i \in DOMAIN b |->
                      [NewGoalRow(i, "unset", "", "", b[i][1])
                          EXCEPT !.is_hidden = b[i][2], !.sort_order = b[i][3]]]
    /\ goal_entries = {}
    /\ InitPages

ListSpec == ListInit /\ [][Browse]_vars

\* no goal or one goal of ListInit; the goal forms and the pages
EditInit == ListInit /\ Len(goals) <= MaxGoals

EditSpec == EditInit /\ [][Browse \/ EditGoals]_vars

\* a pinned numeric goal with any target and any series of at most MaxPoints
\* rows, numeric ones and check-ins left from the time the goal was a
\* check-in goal; the user looks at the pages
SeriesRow(t, entry_date, value) ==
    [id |-> t, goal_id |-> 1, entry_date |-> entry_date,
     is_done |-> IF IsNull(value) THEN Some(TRUE) ELSE Null,
     value |-> value, created_at |-> t]

SeriesOf(numbers) ==
    LET slots   == 0 .. MaxPoints - 1
        content == {Null} \cup {Some(v) : v \in numbers}
        choices == {Null} \cup {Some(<<d, c>>) : d \in Dates, c \in content}
    IN  {{SeriesRow(t, The(f[t])[1], The(f[t])[2]) :
            t \in {u \in slots : ~IsNull(f[u])}} : f \in [slots -> choices]}

Series == SeriesOf(Values)

ChartInit ==
    /\ now = MaxPoints
    /\ today = MaxDate
    /\ \E targetValue \in {""} \cup Numerals :
          goals = <<NewGoalRow(1, "numeric", "kg", targetValue, TRUE)>>
    /\ goal_entries \in Series
    /\ InitPages

ChartSpec == ChartInit /\ [][Browse]_vars

\* the same with targets and values among the largest finite numbers
WideInit ==
    /\ now = MaxPoints
    /\ today = MaxDate
    /\ \E targetValue \in {Null} \cup {Some(v) : v \in WideValues} :
          goals = <<[NewGoalRow(1, "numeric", "kg", "", TRUE)
                        EXCEPT !.target_value = targetValue]>>
    /\ goal_entries \in SeriesOf(WideValues)
    /\ InitPages

WideSpec == WideInit /\ [][Browse]_vars

\* ---------------------------------------------------------------- what is shown
\* the cards of the dashboard shown
Cards ==
    IF route = "dashboard" /\ ~IsNull(dash)
    THEN LET page == DashboardPage(The(dash))
         IN  Range(page.pinned) \cup Range(page.other)
    ELSE {}

Charts == {c \in Cards : ~IsNull(c.chart)}

\* {uiTrackerType === "numeric" && renderNumericChart()}
DetailChart ==
    IF DetailShown /\ uiTrackerType = "numeric"
    THEN DetailNumericChart(numericEntries, The(goal).unit)
    ELSE Null

\* what getDashboardData returns when both of its reads succeed now
DashboardNow ==
    getDashboardData(
        Some(CHOOSE order \in GoalOrders(VisibleGoals) : TRUE),
        Some(EntriesOfGoals({g.id : g \in VisibleGoals})))

\* the detail page holds exactly the stored entries of its goal
InSync == Range(entries) = {e \in goal_entries : e.goal_id = goalId}

Reverse(s) == [i \in 1 .. Len(s) |-> s[Len(s) + 1 - i]]

\* ascending entry_date, ties by ascending created_at
ChartOrder(s) ==
    \A i, j \in 1 .. Len(s) : i < j => ~EntryBefore(s[j], s[i])

NoSharedKeys(s) ==
    \A i, j \in 1 .. Len(s) :
        i # j => ~(s[i].entry_date = s[j].entry_date
                   /\ s[i].created_at = s[j].created_at)

Bottom == Rat(height - paddingY, 1)
Top    == Rat(paddingY, 1)

\* ---------------------------------------------------------------- C1
\* C1: for a goal with entries, the latest entry getDashboardData selects
\* for it is the first row of the History list its detail page shows for
\* the same entries.
C1_LatestIsHistoryHead ==
    (DetailShown /\ InSync /\ entries # <<>>) =>
        History(entries)[1] = DashboardNow.latestEntriesByGoal[goalId]

\* two entries of one goal, the older-dated one added last
C1_Witness ==
    /\ DetailShown /\ InSync
    /\ Len(entries) = 2
    /\ entries[2].entry_date < entries[1].entry_date
    /\ History(entries)[1] = entries[1]

\* ---------------------------------------------------------------- C2
\* C2: the numeric entries the goal detail chart plots are in ascending
\* entry_date order, ties by ascending created_at.
C2_DetailChartAscending ==
    ~IsNull(DetailChart) => ChartOrder(The(DetailChart).source)

\* ---------------------------------------------------------------- C3
\* C3: on the dashboard a goal's entries reach the chart in ascending
\* entry_date order, ties by ascending created_at, and whenever no two of
\* them share both entry_date and created_at that order is the reverse of
\* the History order of the same entries.
C3_ChartInputReversesHistory ==
    \A c \in Cards :
        /\ ChartOrder(c.entries)
        /\ NoSharedKeys(c.entries) => History(c.entries) = Reverse(c.entries)

\* ---------------------------------------------------------------- C4
\* C4: with a target, the dashboard chart's scale contains the target and
\* every value; without one, it is exactly the values' minimum and maximum.
C4_ScaleContainsTarget ==
    \A c \in Charts :
        LET ch     == The(c.chart)
            values == Range(ValuesOf(ch.source))
            target == c.goal.target_value
        IN  IF ~IsNull(target)
            THEN /\ ch.scaleMin <= The(target) /\ The(target) <= ch.scaleMax
                 /\ ch.scaleMin <= Min(values) /\ ch.scaleMax >= Max(values)
            ELSE ch.scaleMin = Min(values) /\ ch.scaleMax = Max(values)

\* a target below two different values
C4_Witness ==
    \E c \in Charts :
        LET values == Range(ValuesOf(The(c.chart).source))
        IN  /\ ~IsNull(c.goal.target_value)
            /\ The(c.goal.target_value) < Min(values)
            /\ Min(values) < Max(values)

\* ---------------------------------------------------------------- C5
\* C5: with a target, the dashboard chart computes targetY within
\* [paddingY, height - paddingY] and draws the target line; without a
\* target it draws none.
C5_TargetLineInPlot ==
    \A c \in Charts :
        LET ch == The(c.chart)
        IN  IF ~IsNull(c.goal.target_value)
            THEN /\ ~IsNull(ch.targetY)
                 /\ RatLeq(Top, The(ch.targetY))
                 /\ RatLeq(The(ch.targetY), Bottom)
                 /\ ch.targetLine
            ELSE ~ch.targetLine

\* a target above every value: the line lies on the top edge
C5_Witness ==
    \E c \in Charts :
        /\ ~IsNull(c.goal.target_value)
        /\ The(c.goal.target_value) > Max(Range(ValuesOf(The(c.chart).source)))
        /\ The(c.chart).targetY = Some(Top)
        /\ The(c.chart).targetLine

C7_EntryIsCheckinOrNumeric ==
    \A e \in goal_entries :
        \/ ~IsNull(e.is_done) /\ IsNull(e.value)
        \/ ~IsNull(e.value) /\ IsNull(e.is_done)

\* ---------------------------------------------------------------- C8
\* C8: the dashboard chart has one point per numeric entry of the goal, in
\* the entries' order; point i (from 0) of n has x = 16 + i * 288 / (n - 1),
\* or x = 16 when n = 1, and y = 108 - (value - scaleMin) / range * 96; a
\* larger value never has a larger y.
C8_PointPerNumericEntry ==
    \A c \in Charts :
        LET ch == The(c.chart)
            n  == Len(ch.source)
            v(i) == The(ch.source[i].value)
        IN  /\ ch.source = NumericOnly(EntriesOfGoals({c.goal.id}))
            /\ Len(ch.points) = n
            /\ \A i \in 1 .. n :
                  /\ ch.points[i].x =
                        IF n > 1 THEN Rat(16 * (n - 1) + (i - 1) * 288, n - 1)
                        ELSE Rat(16, 1)
                  /\ ch.points[i].y =
                        Rat(108 * ch.range - (v(i) - ch.scaleMin) * 96, ch.range)
            /\ \A i, j \in 1 .. n :
                  v(i) > v(j) => RatLeq(ch.points[i].y, ch.points[j].y)

\* two points of different values; a third entry, without a value, is left out
C8_Witness ==
    \E c \in Charts :
        /\ Len(The(c.chart).points) = 2
        /\ Len(c.entries) = 3
        /\ The(c.chart).points[1].y # The(c.chart).points[2].y

\* ---------------------------------------------------------------- C9
\* C9: scaleMax - scaleMin is 0 exactly when all values are one value and
\* the target is absent or equal to it; then range is 1, every point has
\* y = height - paddingY, and a single point has x = paddingX.  The goal
\* detail chart, which has no target, does the same.
C9_FlatSeriesOnBottomEdge ==
    /\ \A c \in Charts :
          LET ch     == The(c.chart)
              values == Range(ValuesOf(ch.source))
              target == c.goal.target_value
          IN  /\ ch.scaleMax - ch.scaleMin = 0
                    <=> /\ Cardinality(values) = 1
                        /\ IsNull(target) \/ target = values
              /\ ch.scaleMax - ch.scaleMin = 0 =>
                    /\ ch.range = 1
                    /\ \A i \in DOMAIN ch.points : ch.points[i].y = Bottom
                    /\ Len(ch.points) = 1 => ch.points[1].x = Rat(paddingX, 1)
    /\ ~IsNull(DetailChart) =>
          LET ch == The(DetailChart)
          IN  Cardinality(Range(ValuesOf(ch.source))) = 1 =>
                 /\ ch.range = 1
                 /\ \A i \in DOMAIN ch.points : ch.points[i].y = Bottom
                 /\ Len(ch.points) = 1 => ch.points[1].x = Rat(paddingX, 1)

\* a single entry whose value is the target
C9_Witness ==
    \E c \in Charts :
        /\ Len(The(c.chart).points) = 1
        /\ c.goal.target_value = Range(ValuesOf(The(c.chart).source))
        /\ The(c.chart).range = 1

\* ---------------------------------------------------------------- C10
\* the dashboard chart of the entries the detail page holds
DashChartOfDetail ==
    DashNumericChart(entries, The(goal).unit, The(goal).target_value)

\* C10 as stated: for the same goal and the same ordered numeric entries
\* the dashboard chart and the goal detail chart have the same points.
C10_SamePoints ==
    ~IsNull(DetailChart) =>
        The(DashChartOfDetail).points = The(DetailChart).points

\* C10 amended: the two charts have the same number of points with the
\* same x; the y are the same too when the goal has no target or its target
\* lies within the entries' smallest and largest value.
C10_SamePointsWithinValues ==
    ~IsNull(DetailChart) =>
        LET d      == The(DetailChart)
            b      == The(DashChartOfDetail)
            values == Range(ValuesOf(d.source))
            target == The(goal).target_value
        IN  /\ Len(b.points) = Len(d.points)
            /\ \A i \in DOMAIN d.points : b.points[i].x = d.points[i].x
            /\ (\/ IsNull(target)
                \/ Min(values) <= The(target) /\ The(target) <= Max(values))
                  => b.points = d.points

\* a target strictly between two values
C10_Witness ==
    /\ ~IsNull(DetailChart)
    /\ ~IsNull(The(goal).target_value)
    /\ LET values == Range(ValuesOf(The(DetailChart).source))
       IN  Min(values) < The(The(goal).target_value)
           /\ The(The(goal).target_value) < Max(values)

\* ---------------------------------------------------------------- C11
\* C11: the Min and Max labels of the dashboard chart show the smallest and
\* the largest entry value, also when the target lies outside them and
\* widens the plotting scale.
C11_LabelsOfEntryValues ==
    \A c \in Charts :
        LET ch     == The(c.chart)
            values == Range(ValuesOf(ch.source))
        IN  /\ ch.minLabel = <<Min(values), c.goal.unit>>
            /\ ch.maxLabel = <<Max(values), c.goal.unit>>

\* a target above every value: the scale ends above the Max label
C11_Witness ==
    \E c \in Charts :
        /\ The(c.chart).hasTarget
        /\ The(c.chart).scaleMax > The(c.chart).maxLabel[1]
        /\ The(c.chart).scaleMin = The(c.chart).minLabel[1]


\* ---------------------------------------------------------------- C12
CheckinCards == {c \in Cards : c.goal.is_pinned /\ c.goal.tracker_type = "checkin"}

\* C12: a check-in calendar is drawn exactly when one of the entries handed to
\* renderCheckinCalendar has is_done true; with no entries, or with none
\* done, nothing is drawn.
C12_CalendarIffDoneEntry ==
    \A c \in CheckinCards :
        ~IsNull(c.calendar) <=> \E e \in Range(c.entries) : e.is_done = Some(TRUE)

\* two pinned check-in goals are shown, one with a calendar and one whose
\* only entries are not done
C12_Witness ==
    \E c, d \in CheckinCards :
        /\ ~IsNull(c.calendar)
        /\ IsNull(d.calendar) /\ d.entries # <<>>

\* ---------------------------------------------------------------- C13
Calendars == {The(c.calendar) : c \in {d \in Cards : ~IsNull(d.calendar)}}

IsLeapYear(y) == y % 4 = 0 /\ (y % 100 # 0 \/ y % 400 = 0)

\* the days of month m (1 .. 12) of year y
DaysInMonth(y, m) ==
    IF m \in {4, 6, 9, 11} THEN 30
    ELSE IF m = 2 THEN (IF IsLeapYear(y) THEN 29 ELSE 28)
    ELSE 31

\* the weekday of a calendar date, Sunday = 0
Weekday(y, m, d) ==
    LET t  == <<0, 3, 2, 5, 0, 3, 5, 1, 4, 6, 2, 4>>
        yy == IF m < 3 THEN y - 1 ELSE y
    IN  (yy + (yy \div 4) - (yy \div 100) + (yy \div 400) + t[m] + d) % 7

\* C13: the cells of a calendar are k blanks, k the weekday (Sunday = 0) of
\* the first day of the reference month, followed by one cell per day
\* 1 .. N in increasing order, N the days of that month: k + N cells.
C13_BlanksThenDays ==
    \A cal \in Calendars :
        LET ref == ISO(The(The(dash).clock).baseDate)
            k   == Weekday(ref.year, ref.month, 1)
            N   == DaysInMonth(ref.year, ref.month)
        IN  /\ Len(cal.cells) = k + N
            /\ \A i \in 1 .. k : IsNull(cal.cells[i])
            /\ \A d \in 1 .. N : cal.cells[k + d] = Some(d)

\* the calendar of February 2024: four blanks and 29 days
C13_Witness ==
    \E cal \in Calendars :
        /\ cal.year = 2024 /\ cal.month = 1
        /\ Len(cal.cells) = 33

\* ---------------------------------------------------------------- C14
\* the date the render's first clock reading gives: the one the reference
\* month is taken from
ReferenceDate == ISO(The(The(dash).clock).baseDate)

\* C14: every day cell of a calendar has exactly one tag: done when its date
\* is the date of a done entry, otherwise today when its date is the
\* reference date, otherwise plain; done wins over today, and done dates
\* outside the reference month tag no cell.
C14_TagOfEveryDayCell ==
    \A c \in Cards :
        ~IsNull(c.calendar) =>
            LET cal  == The(c.calendar)
                done == {ISO(e.entry_date) :
                            e \in {f \in Range(c.entries) : f.is_done = Some(TRUE)}}
            IN  \A i \in DOMAIN cal.cells :
                    ~IsNull(cal.cells[i]) =>
                        LET date == [year  |-> ReferenceDate.year,
                                     month |-> ReferenceDate.month,
                                     day   |-> The(cal.cells[i])]
                        IN  cal.tags[i] = IF date \in done THEN "done"
                                          ELSE IF date = ReferenceDate THEN "today"
                                          ELSE "plain"

\* ---------------------------------------------------------------- C15
\* the dashboard is shown and both reads of its render succeeded
DashboardLoaded ==
    /\ route = "dashboard" /\ ~IsNull(dash)
    /\ The(dash).console = <<>>

\* the calendar has a cell for the date, tagged done
DoneCell(cal, date) ==
    /\ cal.year = date.year /\ cal.month + 1 = date.month
    /\ \E i \in DOMAIN cal.cells :
          cal.cells[i] = Some(date.day) /\ cal.tags[i] = "done"

\* C15: once a check-in of the current day is stored for a pinned check-in
\* goal, a dashboard rendered on that day shows a calendar for the goal in
\* which the cell of the current day is tagged done.
C15_CheckinShowsOnCalendar ==
    DashboardLoaded =>
        \A c \in CheckinCards :
            (\E e \in goal_entries :
                /\ e.goal_id = c.goal.id
                /\ e.is_done = Some(TRUE)
                /\ e.entry_date = today)
            => /\ ~IsNull(c.calendar)
               /\ DoneCell(The(c.calendar), ISO(today))

\* ---------------------------------------------------------------- C16
\* the two sections of the dashboard shown
Page ==
    IF route = "dashboard" /\ ~IsNull(dash)
    THEN DashboardPage(The(dash))
    ELSE [pinned |-> <<>>, other |-> <<>>]

\* the goals of the dashboard shown, as fetched
Fetched == IF route = "dashboard" /\ ~IsNull(dash) THEN The(dash).goals ELSE <<>>

\* the places in the fetch order of the goals of a section
FetchedAt(section) ==
    [i \in DOMAIN section |->
        CHOOSE k \in DOMAIN Fetched : Fetched[k] = section[i].goal]

\* C16: every fetched goal is in exactly one of the two groups, the pinned
\* one exactly when is_pinned is true, and each group lists its goals in the
\* order in which they were fetched.
C16_TwoGroupsInFetchOrder ==
    /\ \A k \in DOMAIN Fetched :
          LET inPinned == {i \in DOMAIN Page.pinned : Page.pinned[i].goal = Fetched[k]}
              inOther  == {i \in DOMAIN Page.other : Page.other[i].goal = Fetched[k]}
          IN  /\ Cardinality(inPinned) + Cardinality(inOther) = 1
              /\ inPinned # {} <=> Fetched[k].is_pinned
    /\ Len(Page.pinned) + Len(Page.other) = Len(Fetched)
    /\ \A section \in {Page.pinned, Page.other} :
          \A i, j \in DOMAIN section :
              i < j => FetchedAt(section)[i] < FetchedAt(section)[j]

\* two goals that are not pinned, fetched and listed with the later-created
\* one first
C16_Witness ==
    /\ Len(Page.other) = 2
    /\ Page.other[1].goal.id = 2 /\ Page.other[2].goal.id = 1
    /\ Fetched[1].id = 2

\* ---------------------------------------------------------------- C17
\* C17: a card of the other section has neither calendar nor chart, whatever
\* its tracker type and entries, and still has the summary of its latest
\* entry; a card of the pinned section has a calendar only for a check-in
\* goal and a chart only for a numeric goal, never both.
C17_VisualsOnlyWhenPinned ==
    /\ \A c \in Range(Page.other) :
          /\ IsNull(c.calendar) /\ IsNull(c.chart)
          /\ c.entries # <<>> =>
                /\ c.summary # <<"No entries yet">>
                /\ \E e \in Range(c.entries) :
                      c.summary[Len(c.summary)] = e.entry_date
    /\ \A c \in Range(Page.pinned) :
          /\ ~IsNull(c.calendar) => c.goal.tracker_type = "checkin"
          /\ ~IsNull(c.chart) => c.goal.tracker_type = "numeric"
          /\ IsNull(c.calendar) \/ IsNull(c.chart)

\* a numeric goal that is not pinned is listed with the summary of its
\* numeric entry and no chart, next to a pinned numeric goal with its chart
C17_Witness ==
    /\ \E c \in Range(Page.other) :
          /\ c.goal.tracker_type = "numeric"
          /\ \E e \in Range(c.entries) : ~IsNull(e.value)
          /\ c.summary[1] = "Last entry:"
          /\ IsNull(c.chart)
    /\ \E c \in Range(Page.pinned) : ~IsNull(c.chart)

\* ---------------------------------------------------------------- C18
\* the clock readings a render may be given
Clocks == {Null} \cup {Some(c) : c \in ClockReadings}

\* C18: a render whose goals read fails or returns no goal ends with the
\* empty goal list and the two empty maps, having queried the goals only,
\* and shows both sections empty.
C18_NoGoalsNoEntriesRead ==
    [][\A goalsOk, entriesOk \in BOOLEAN, order \in GoalOrders(VisibleGoals),
         clock \in Clocks :
          ((~goalsOk \/ order = <<>>)
             /\ OpenDashboard(goalsOk, entriesOk, order, clock))
          => /\ The(dash').goals = <<>>
             /\ The(dash').latestEntriesByGoal = EmptyMap
             /\ The(dash').entriesByGoal = EmptyMap
             /\ The(dash').queried = <<"goals">>
             /\ DashboardPage(The(dash')) = [pinned |-> <<>>, other |-> <<>>]
             /\ route' = "dashboard"]_vars

\* the store holds goals with entries and the dashboard shown has none: its
\* goals read failed
C18_Witness ==
    /\ VisibleGoals # {} /\ goal_entries # {}
    /\ route = "dashboard" /\ ~IsNull(dash)
    /\ The(dash).goals = <<>>
    /\ The(dash).console = <<"[dashboard] goals error">>
    /\ Page = [pinned |-> <<>>, other |-> <<>>]

\* ---------------------------------------------------------------- C19
\* the goals of the cards of a section, in order
GoalsOf(section) == [i \in DOMAIN section |-> section[i].goal]

WithoutEntries(c) == \A e \in goal_entries : e.goal_id # c.goal.id

\* C20: the card of a goal without entries, of any tracker type and in
\* either section, has no latest entry, the summary 'No entries yet' and
\* neither calendar nor chart.
C20_NoEntriesYet ==
    \A c \in Range(Page.pinned) \cup Range(Page.other) :
        WithoutEntries(c) =>
            /\ IsNull(MapGet(The(dash).latestEntriesByGoal, c.goal.id))
            /\ c.summary = <<"No entries yet">>
            /\ IsNull(c.calendar) /\ IsNull(c.chart)

\* both reads succeeded; a pinned goal with a tracker and a goal that is not
\* pinned are listed, neither with an entry
C20_Witness ==
    /\ DashboardLoaded
    /\ \E c \in Range(Page.pinned) :
          c.goal.tracker_type \in {"checkin", "numeric"} /\ WithoutEntries(c)
    /\ \E c \in Range(Page.other) : WithoutEntries(c)

\* ---------------------------------------------------------------- C21
\* the text denotes the finite number stored
StoresFinite(text, stored) ==
    ~IsNull(stored) =>
        /\ Number(text).kind = "finite"
        /\ stored = Some(Number(text).n)

Listed ==
    IF route \in {"dashboard", "goals"} /\ ~IsNull(dash)
    THEN The(dash).goals ELSE <<>>

\* C22: no hidden goal is on the dashboard or on the goals list, and the
\* fetched goals are the pinned ones before the others, each of the two in
\* ascending sort_order.
C22_VisiblePinnedFirstBySortOrder ==
    /\ \A i \in DOMAIN Listed : ~Listed[i].is_hidden
    /\ \A c \in Range(Page.pinned) \cup Range(Page.other) : ~c.goal.is_hidden
    /\ \A i, j \in DOMAIN Listed :
          i < j =>
             /\ Listed[j].is_pinned => Listed[i].is_pinned
             /\ Listed[i].is_pinned = Listed[j].is_pinned
                   => Listed[i].sort_order <= Listed[j].sort_order

\* the goals list shows two of three stored goals: a pinned one of the
\* larger sort_order before one that is not pinned; the third is hidden
C22_Witness ==
    /\ route = "goals" /\ Len(goals) = 3 /\ Len(Listed) = 2
    /\ \E k \in DOMAIN goals : goals[k].is_hidden
    /\ Listed[1].is_pinned /\ ~Listed[2].is_pinned
    /\ Listed[1].sort_order > Listed[2].sort_order

\* ---------------------------------------------------------------- C23
\* C23: every stored goal whose tracker type is not numeric has neither unit
\* nor target_value, also after an edit that switched it away from numeric.
C23_UnitAndTargetOnlyWhenNumeric ==
    \A k \in DOMAIN goals :
        goals[k].tracker_type # "numeric" =>
            /\ goals[k].unit = "NULL"
            /\ IsNull(goals[k].target_value)

\* a goal that is not numeric any more (it keeps an entry with a value), with
\* neither unit nor target
C23_Witness ==
    \E k \in DOMAIN goals :
        /\ goals[k].tracker_type # "numeric"
        /\ \E e \in goal_entries : e.goal_id = goals[k].id /\ ~IsNull(e.value)
        /\ goals[k].unit = "NULL" /\ IsNull(goals[k].target_value)

\* ---------------------------------------------------------------- C24
\* the places of a list whose entry has another id, in order
KeptPlaces(list, entryId) ==
    SelectSeq([i \in DOMAIN list |-> i], LAMBDA i : list[i].id # entryId)

\* C24: a declined confirmation changes nothing; an answer with an error or
\* a thrown call leaves the local list as it is, sets entryError and resets
\* deletingEntryId; an answer with success removes from the local list the
\* entry of that id and no other, keeps the order of the rest and resets
\* deletingEntryId.
C24_DeleteOutcomes ==
    [][/\ \A e \in Range(entries) :
            handleDeleteEntry(e.id, FALSE) => UNCHANGED vars
       /\ \A entryId \in BagToSet(pending), answer \in Answers :
            DeleteResponse(entryId, answer[1], answer[2])
            => /\ deletingEntryId' = Null
               /\ IF answer[1] = "data"
                  THEN LET kept == KeptPlaces(entries, entryId)
                       IN  /\ entries' = [i \in DOMAIN kept |-> entries[kept[i]]]
                           /\ Len(entries) - Len(entries') <= 1
                  ELSE /\ entries' = entries
                       /\ ~IsNull(entryError')]_vars

\* a delete was answered with an error: both entries are still listed, the
\* message is shown and no button is disabled
C24_Witness ==
    /\ DetailShown /\ Len(entries) = 2
    /\ entryError = Some("Failed to delete this entry. Please try again.")
    /\ deletingEntryId = Null

\* ---------------------------------------------------------------- C25
\* what an add handler leaves behind once its insert was answered
AfterInsert(outcome) ==
    /\ ~savingEntry'
    /\ IF outcome = "data"
       THEN /\ Len(entries') = Len(entries) + 1
            /\ SubSeq(entries', 1, Len(entries)) = entries
            /\ entries'[Len(entries')] \in goal_entries' \ goal_entries
       ELSE /\ entries' = entries
            /\ ~IsNull(entryError')

\* what handleAddNumeric leaves behind when its validation fails
AfterRejection ==
    /\ goal_entries' = goal_entries /\ now' = now
    /\ entries' = entries
    /\ ~IsNull(entryError')
    /\ ~savingEntry'

\* the ticks an insert of this step can have been stamped with: an applied
\* insert leaves the clock one tick after its stamp
StampsOf(answer) == IF answer[2] THEN {t \in Ticks : t + 1 = now'} ELSE Ticks

\* C25: an add handler whose validation fails issues no insert; when the
\* validation fails, the insert is answered with an error or the call
\* throws, the local list is unchanged and entryError is set; on success
\* the row the store returned, and nothing else, is appended; savingEntry is
\* false when the handler is done.
C25_AddOutcomes ==
    [][/\ \A answer \in Answers :
          \A todayISO \in Days, at \in StampsOf(answer) :
            handleAddCheckin(todayISO, at, answer[1], answer[2])
            => AfterInsert(answer[1])
       /\ \A answer \in Answers :
          \A numericDate \in {Null} \cup {Some(d) : d \in Dates},
             numericValue \in NumberTexts, todayISO \in Days,
             at \in StampsOf(answer) :
            handleAddNumeric(numericDate, numericValue, todayISO, at,
                             answer[1], answer[2])
            => IF numericValue = "" \/ Number(numericValue).kind = "NaN"
               THEN AfterRejection
               ELSE AfterInsert(answer[1])]_vars

\* an insert whose call threw after the store had applied it: the message is
\* shown and the stored row is not in the list
C25_Witness ==
    /\ DetailShown /\ ~savingEntry
    /\ entryError = Some("Something went wrong. Please try again.")
    /\ \E e \in goal_entries :
          e.goal_id = goalId /\ e \notin Range(entries)

\* ---------------------------------------------------------------- C26
\* C26: no submit of a goal form changes the id, is_hidden or sort_order of
\* a stored goal: an edited goal stays as visible as it was and keeps its
\* sort key.
C26_EditKeepsHiddenAndSortOrder ==
    [][\A k \in DOMAIN goals :
          /\ k \in DOMAIN goals'
          /\ goals'[k].id = goals[k].id
          /\ goals'[k].is_hidden = goals[k].is_hidden
          /\ goals'[k].sort_order = goals[k].sort_order]_vars

\* a goal stored with the column default of sort_order was given a tracker
\* in the edit form, and the goals list the form leads to was opened
C26_Witness ==
    /\ route = "goals" /\ Len(Listed) = 1
    /\ Listed[1].tracker_type = "numeric"
    /\ Listed[1].sort_order = 1000

\* ---------------------------------------------------------------- C27
\* disabled={deletingEntryId === entry.id}
DeleteDisabled(e) == deletingEntryId = Some(e.id)

\* C27: while a delete request for a listed entry is in flight its delete
\* button is disabled, whatever other delete requests start or complete
\* meanwhile, and no entry has two delete requests in flight.
C27_DisabledWhileInFlight ==
    \A e \in Range(entries) :
        BagIn(e.id, pending) =>
            /\ DeleteDisabled(e)
            /\ CopiesIn(e.id, pending) = 1

\* ---------------------------------------------------------------- C28
\* the day cells of a calendar whose date is the one compared for the today
\* tag
TodayCells(cal) ==
    {i \in DOMAIN cal.cells :
        /\ ~IsNull(cal.cells[i])
        /\ [year |-> cal.year, month |-> cal.month + 1, day |-> The(cal.cells[i])]
              = cal.todayISO}

\* C28: in every calendar the date compared with the cells for the today tag
\* lies in the month displayed, and exactly one day cell equals it, whatever
\* the server's local date is next to the UTC date.
C28_TodayInDisplayedMonth ==
    \A cal \in Calendars :
        /\ cal.todayISO.year = cal.year
        /\ cal.todayISO.month = cal.month + 1
        /\ Cardinality(TodayCells(cal)) = 1

\* ---------------------------------------------------------------- C29
\* the padded plot area: paddingX <= x <= width - paddingX and
\* paddingY <= y <= height - paddingY
InPlotArea(p) ==
    /\ RatLeq(Rat(paddingX, 1), p.x) /\ RatLeq(p.x, Rat(width - paddingX, 1))
    /\ RatLeq(Top, p.y) /\ RatLeq(p.y, Bottom)

\* C29: every point of a dashboard chart lies inside the padded plot area,
\* and with more than one point the x coordinates increase strictly from
\* paddingX at the first to width - paddingX at the last.
C29_PointsInsidePlotArea ==
    \A c \in Charts :
        LET points == The(c.chart).points
            n      == Len(points)
        IN  /\ \A i \in 1 .. n : InPlotArea(points[i])
            /\ n > 1 =>
                  /\ points[1].x = Rat(paddingX, 1)
                  /\ points[n].x = Rat(width - paddingX, 1)
                  /\ \A i \in 1 .. n - 1 :
                        /\ RatLeq(points[i].x, points[i + 1].x)
                        /\ points[i].x # points[i + 1].x

\* ---------------------------------------------------------------- C30
\* the detail page finished loading without a load error and none of its
\* requests is in flight
DetailAtRest == DetailShown /\ ~savingEntry /\ pending = EmptyBag

\* C30: whenever the goal detail page is loaded without a load error and no
\* request is in flight, the entry list it displays holds exactly the entries
\* stored for its goal, whatever adds and deletes succeeded or failed before.
C30_ListMatchesStore == DetailAtRest => InSync
====
